---- MODULE Spec2Model ----
(***************************************************************************)
(* Model of the stringprep profiles of src/src/lib.rs (saslprep, nameprep) *)
(* and of the character tables of src/src/tables.rs.                       *)
(*                                                                         *)
(* A string is a sequence of code points (integers).  The tables of        *)
(* tables.rs are written out in full, in decimal.  The services of the     *)
(* unicode_normalization and unicode_bidi crates and of str::to_lowercase  *)
(* are modelled on the code points of Universe, with the values of the     *)
(* Unicode Character Database.                                             *)
(***************************************************************************)
EXTENDS Integers, Sequences, FiniteSets, TLC

(* Longest input string of a call. *)
MaxLen == 3

(* Code points an input string is drawn from:                              *)
(*   7 BEL, 32 SPACE, 65 'A', 97 'a', 160 NO-BREAK SPACE, 173 SOFT HYPHEN, *)
(*   768 COMBINING GRAVE ACCENT, 803 COMBINING DOT BELOW,                  *)
(*   832 COMBINING GRAVE TONE MARK, 1488 HEBREW ALEF, 1575 ARABIC ALEF,    *)
(*   8203 ZERO WIDTH SPACE, 8450 DOUBLE-STRUCK CAPITAL C,                  *)
(*   8501 ALEF SYMBOL, 57344 private use U+E000.                           *)
Alphabet == {7, 32, 65, 97, 160, 173, 768, 803, 832, 1488, 1575, 8203, 8450, 8501, 57344}

(* Alphabet and the code points the stages produce from it:                *)
(*   67 'C', 99 'c', 192 A-grave, 224 a-grave, 7840 A-dot-below,           *)
(*   7841 a-dot-below.                                                     *)
Universe == Alphabet \cup {67, 99, 192, 224, 7840, 7841}

(* All strings over S of length at most n. *)
Strings(S, n) == UNION {[1..k -> S] : k \in 0..n}

(***************************************************************************)
(* tables.rs                                                               *)
(***************************************************************************)

(* B.1 Commonly mapped to nothing *)
commonly_mapped_to_nothing(c) ==
    \/ c \in {173, 847, 6150, 6155, 6156, 6157, 8203, 8204, 8205, 8288, 65279}
    \/ c \in 65024..65039

(* C.1.2 Non-ASCII space characters *)
non_ascii_space_character(c) ==
    c \in {160, 5760, 8192, 8193, 8194, 8195, 8196, 8197, 8198, 8199, 8200,
           8201, 8202, 8203, 8239, 8287, 12288}

(* C.2.1 ASCII control characters *)
ascii_control_character(c) == c \in 0..31 \/ c = 127

(* C.2.2 Non-ASCII control characters *)
non_ascii_control_character(c) ==
    \/ c \in 128..159
    \/ c \in {1757, 1807, 6158, 8204, 8205, 8232, 8233, 8288, 8289, 8290, 8291, 65279}
    \/ c \in 8298..8303
    \/ c \in 65529..65532
    \/ c \in 119155..119162

(* C.3 Private use *)
private_use(c) ==
    c \in 57344..63743 \/ c \in 983040..1048573 \/ c \in 1048576..1114109

(* C.4 Non-character code points: U+FDD0..U+FDEF and the last two code     *)
(* points of each of the 17 planes.                                        *)
non_character_code_point(c) ==
    \/ c \in 64976..65007
    \/ \E p \in 0..16 : c \in (p * 65536 + 65534)..(p * 65536 + 65535)

(* C.5 Surrogate codes: the match has only the wildcard arm. *)
surrogate_code(c) == FALSE

(* C.6 Inappropriate for plain text *)
inappropriate_for_plain_text(c) == c \in 65529..65533

(* C.7 Inappropriate for canonical representation *)
inappropriate_for_canonical_representation(c) == c \in 12272..12283

(* C.8 Change display properties or are deprecated *)
change_display_properties_or_deprecated(c) ==
    c \in {832, 833, 8206, 8207, 8234, 8235, 8236, 8237, 8238,
           8298, 8299, 8300, 8301, 8302, 8303}

(* C.9 Tagging characters *)
tagging_character(c) == c = 917505 \/ c \in 917536..917631

(* unicode_bidi::bidi_class on Universe. *)
bidi_class(c) ==
    CASE c \in {65, 67, 97, 99, 192, 224, 7840, 7841, 8450, 8501, 57344} -> "L"
      [] c = 1488 -> "R"
      [] c = 1575 -> "AL"
      [] c \in {768, 803, 832} -> "NSM"
      [] c \in {7, 173, 8203} -> "BN"
      [] c = 32 -> "WS"
      [] c = 160 -> "CS"
      [] OTHER -> "ON"

(* D.1 Characters with bidirectional property "R" or "AL" *)
bidi_r_or_al(c) == bidi_class(c) \in {"R", "AL"}

(* D.2 Characters with bidirectional property "L" *)
bidi_l(c) == bidi_class(c) = "L"

(***************************************************************************)
(* Iterator adaptors and library services used by lib.rs                   *)
(***************************************************************************)

(* char::is_ascii *)
is_ascii(c) == c \in 0..127

(* Iterator::filter(..).collect() is SelectSeq, Iterator::map(..).collect() *)
(* a sequence constructor, str::contains and Iterator::all a quantifier    *)
(* over the indices.                                                       *)

(* char::to_lowercase on Universe (one code point each). *)
lower(c) ==
    CASE c = 65 -> 97
      [] c = 67 -> 99
      [] c = 192 -> 224
      [] c = 7840 -> 7841
      [] OTHER -> c

(* str::to_lowercase *)
to_lowercase(t) == [i \in 1..Len(t) |-> lower(t[i])]

(* Full compatibility decomposition of one code point. *)
decompose_compatible(c) ==
    CASE c = 160 -> <<32>>
      [] c = 192 -> <<65, 768>>
      [] c = 224 -> <<97, 768>>
      [] c = 832 -> <<768>>
      [] c = 7840 -> <<65, 803>>
      [] c = 7841 -> <<97, 803>>
      [] c = 8450 -> <<67>>
      [] c = 8501 -> <<1488>>
      [] OTHER -> <<c>>

(* Canonical combining class. *)
canonical_combining_class(c) ==
    CASE c \in {768, 832} -> 230
      [] c = 803 -> 220
      [] OTHER -> 0

(* Primary composite of a starter and a following code point; 0 if none. *)
compose(a, b) ==
    CASE a = 65 /\ b = 768 -> 192
      [] a = 97 /\ b = 768 -> 224
      [] a = 65 /\ b = 803 -> 7840
      [] a = 97 /\ b = 803 -> 7841
      [] OTHER -> 0

(* Decompositions: every code point replaced by its decomposition. *)
RECURSIVE Decompose(_)
Decompose(s) ==
    IF s = <<>> THEN <<>> ELSE decompose_compatible(Head(s)) \o Decompose(Tail(s))

(* Canonical ordering: within a run of non-starters, stable sort by class. *)
RECURSIVE Reorder(_)
Reorder(s) ==
    LET bad == {i \in 1..(Len(s) - 1) :
                   /\ canonical_combining_class(s[i + 1]) > 0
                   /\ canonical_combining_class(s[i]) > canonical_combining_class(s[i + 1])}
    IN  IF bad = {} THEN s
        ELSE LET i == CHOOSE j \in bad : \A k \in bad : j <= k
             IN  Reorder([s EXCEPT ![i] = s[i + 1], ![i + 1] = s[i]])

(* Recompositions: out is the composed prefix, st the index in out of the  *)
(* last starter (0 if none), lc the class of the last code point appended  *)
(* after it (-1 right after the starter).                                  *)
RECURSIVE Recompose(_, _, _, _)
Recompose(s, out, st, lc) ==
    IF s = <<>> THEN out
    ELSE LET c == Head(s)
             k == canonical_combining_class(c)
             comp == IF st > 0 /\ (lc < k \/ (lc = -1 /\ k = 0))
                     THEN compose(out[st], c) ELSE 0
         IN  IF comp # 0
             THEN Recompose(Tail(s), [out EXCEPT ![st] = comp], st, lc)
             ELSE IF k = 0
                  THEN Recompose(Tail(s), Append(out, c), Len(out) + 1, -1)
                  ELSE Recompose(Tail(s), Append(out, c), st, k)

(* UnicodeNormalization::nfkc followed by collect. *)
nfkc(s) == Recompose(Reorder(Decompose(s)), <<>>, 0, -1)


(***************************************************************************)
(* lib.rs: the stages of saslprep and nameprep                             *)
(***************************************************************************)

(* Option<char>: None is the empty sequence, Some(c) is <<c>>. *)
None == <<>>
Some(c) == <<c>>

(* next, taking the last item instead of the first. *)
next_last(it) == IF it = <<>> THEN <<>> ELSE <<it[Len(it)]>>

(* Iterator::next on a collected iterator. *)
next(it) == IF it = <<>> THEN None ELSE Some(Head(it))

(* DoubleEndedIterator::next_back on a collected iterator. *)
next_back(it) == IF it = <<>> THEN None ELSE Some(it[Len(it)])

(* The fast-path test without the test for control characters. *)
is_fast_path_char_any_ascii(c) == is_ascii(c)

(* The fast-path test of saslprep. *)
is_fast_path_char(c) == is_ascii(c) /\ ~ascii_control_character(c)
fast_path(t) == \A i \in 1..Len(t) : is_fast_path_char(t[i])

(* saslprep, 2.1 Mapping: the closure of map, the closure of filter, and   *)
(* the adaptor chain map(..).filter(..).                                   *)
space_map_inverted(c) == IF non_ascii_space_character(c) THEN c ELSE 32
space_map(c) == IF non_ascii_space_character(c) THEN 32 ELSE c
not_mapped_to_nothing(c) == ~commonly_mapped_to_nothing(c)
saslprep_mapped(t) ==
    SelectSeq([i \in 1..Len(t) |-> space_map(t[i])], not_mapped_to_nothing)

(* Normalization with the mapping applied to its output instead of its     *)
(* input.                                                                  *)
saslprep_normalized_then_mapped(t) == saslprep_mapped(nfkc(t))

(* saslprep, 2.2 Normalization: the lazy adaptor chain is consumed by      *)
(* nfkc().collect().                                                       *)
saslprep_normalized(t) == nfkc(saslprep_mapped(t))

(* nameprep, 3. Mapping: filter(..).collect() and then to_lowercase. *)
nameprep_mapped(t) == to_lowercase(SelectSeq(t, not_mapped_to_nothing))

(* The filter of saslprep without the ASCII control characters. *)
saslprep_prohibited_no_c21(c) ==
    \/ non_ascii_space_character(c)
    \/ non_ascii_control_character(c)
    \/ private_use(c)
    \/ non_character_code_point(c)
    \/ surrogate_code(c)
    \/ inappropriate_for_plain_text(c)
    \/ inappropriate_for_canonical_representation(c)
    \/ change_display_properties_or_deprecated(c)
    \/ tagging_character(c)

(* The closure of the prohibited-output filter of saslprep. *)
saslprep_prohibited(c) ==
    \/ non_ascii_space_character(c)
    \/ ascii_control_character(c)
    \/ non_ascii_control_character(c)
    \/ private_use(c)
    \/ non_character_code_point(c)
    \/ surrogate_code(c)
    \/ inappropriate_for_plain_text(c)
    \/ inappropriate_for_canonical_representation(c)
    \/ change_display_properties_or_deprecated(c)
    \/ tagging_character(c)

(* The filter of nameprep with the ASCII control characters. *)
nameprep_prohibited_with_c21(c) ==
    \/ non_ascii_space_character(c)
    \/ ascii_control_character(c)
    \/ non_ascii_control_character(c)
    \/ private_use(c)
    \/ non_character_code_point(c)
    \/ surrogate_code(c)
    \/ inappropriate_for_plain_text(c)
    \/ inappropriate_for_canonical_representation(c)
    \/ change_display_properties_or_deprecated(c)
    \/ tagging_character(c)

(* The closure of the prohibited-output filter of nameprep. *)
nameprep_prohibited(c) ==
    \/ non_ascii_space_character(c)
    \/ non_ascii_control_character(c)
    \/ private_use(c)
    \/ non_character_code_point(c)
    \/ surrogate_code(c)
    \/ inappropriate_for_plain_text(c)
    \/ inappropriate_for_canonical_representation(c)
    \/ change_display_properties_or_deprecated(c)
    \/ tagging_character(c)

(* normalized.chars().filter(..).next() of either profile. *)
prohibited(f, n) ==
    IF f = "saslprep" THEN next(SelectSeq(n, saslprep_prohibited))
    ELSE next(SelectSeq(n, nameprep_prohibited))

(* normalized.contains(tables::bidi_r_or_al), normalized.contains(bidi_l) *)
contains_r_or_al(n) == \E i \in 1..Len(n) : bidi_r_or_al(n[i])
contains_l(n) == \E i \in 1..Len(n) : bidi_l(n[i])

(* The bidirectional check without the test of the last character. *)
bidirectional_first_only(n) ==
    IF contains_r_or_al(n)
    THEN IF contains_l(n) THEN "l"
         ELSE IF next(n) = None THEN "panic"
         ELSE IF ~bidi_r_or_al(next(n)[1]) THEN "ends"
         ELSE "pass"
    ELSE "pass"

(* The bidirectional check with the tests of the first and the last        *)
(* character outside the test for a RandALCat character.                   *)
bidirectional_unguarded(n) ==
    IF contains_r_or_al(n) /\ contains_l(n) THEN "l"
    ELSE IF next(n) = None THEN "panic"
    ELSE IF contains_r_or_al(n) /\ ~bidi_r_or_al(next(n)[1]) THEN "ends"
    ELSE IF next_back(n) = None THEN "panic"
    ELSE IF contains_r_or_al(n) /\ ~bidi_r_or_al(next_back(n)[1]) THEN "ends"
    ELSE "pass"

(* RFC3454, 6. Bidirectional Characters, the same code in both profiles.   *)
(* "l" and "ends" are the two returns of the error, "pass" falls through,   *)
(* "panic" is unwrap() called on None.  The || evaluates the test of the   *)
(* last character only when the test of the first one is false.            *)
bidirectional(n) ==
    IF contains_r_or_al(n)
    THEN IF contains_l(n) THEN "l"
         ELSE IF next(n) = None THEN "panic"
         ELSE IF ~bidi_r_or_al(next(n)[1]) THEN "ends"
         ELSE IF next_back(n) = None THEN "panic"
         ELSE IF ~bidi_r_or_al(next_back(n)[1]) THEN "ends"
         ELSE "pass"
    ELSE "pass"

(* Result<Cow<str>, Error>, with the return statement that produced it and *)
(* a value for a call that has not returned (Pending) or has unwound       *)
(* (Panic).                                                                *)
Pending == [kind |-> "Pending", str |-> <<>>, ch |-> None, site |-> "none"]
Ok(t, site) == [kind |-> "Ok", str |-> t, ch |-> None, site |-> site]
ProhibitedCharacter(c) ==
    [kind |-> "ProhibitedCharacter", str |-> <<>>, ch |-> Some(c), site |-> "prohibited"]
ProhibitedBidirectionalText(site) ==
    [kind |-> "ProhibitedBidirectionalText", str |-> <<>>, ch |-> None, site |-> site]
Panic == [kind |-> "Panic", str |-> <<>>, ch |-> None, site |-> "unwrap"]

(* Prohibited Output and Bidirectional Characters on a normalized string:  *)
(* the code of either function after its normalization.                    *)
checked(f, n) ==
    LET p == prohibited(f, n)
        b == bidirectional(n)
    IN  IF p # None THEN ProhibitedCharacter(p[1])
        ELSE CASE b = "pass" -> Ok(n, "end")
               [] b = "panic" -> Panic
               [] OTHER -> ProhibitedBidirectionalText(b)

(* The body of saslprep after the fast path: mapping, normalization,       *)
(* prohibited output, bidirectional characters.                            *)
saslprep_stages(t) == checked("saslprep", saslprep_normalized(t))

(***************************************************************************)
(* tables.rs: B.2 Mapping for case-folding used with NFKC                  *)
(***************************************************************************)

(* rfc3454::B_2, sorted by code point: the entries of table B.2 of RFC     *)
(* 3454 for U+0041, U+0043, U+00C0, U+00DF, U+0390, U+1EA0, U+2102 and     *)
(* U+33C6.  An entry is <<code point, replacement>>.                       *)
B_2 ==
    << <<65, <<97>>>>, <<67, <<99>>>>, <<192, <<224>>>>, <<223, <<115, 115>>>>,
       <<912, <<953, 776, 769>>>>, <<7840, <<7841>>>>, <<8450, <<99>>>>,
       <<13254, <<99, 8725, 107, 103>>>> >>

(* slice::binary_search_by_key with the key e.0, on the entries lo..hi-1   *)
(* of t: <<"Ok", index>> of an entry with the key k, or <<"Err", index>>   *)
(* where it would be inserted.                                             *)
RECURSIVE binary_search_by_key(_, _, _, _)
binary_search_by_key(t, k, lo, hi) ==
    IF lo >= hi THEN <<"Err", lo>>
    ELSE LET mid == lo + ((hi - lo) \div 2)
         IN  IF t[mid][1] < k THEN binary_search_by_key(t, k, mid + 1, hi)
             ELSE IF t[mid][1] > k THEN binary_search_by_key(t, k, lo, mid)
             ELSE <<"Ok", mid>>

(* case_fold_for_nfkc on the table t: the iterator CaseFoldForNfkc, either *)
(* Chars over the replacement of the entry found or Char(Some(c)).         *)
case_fold_for_nfkc(t, c) ==
    LET r == binary_search_by_key(t, c, 1, Len(t) + 1)
    IN  IF r[1] = "Ok"
        THEN [kind |-> "Chars", rest |-> t[r[2]][2], ch |-> None]
        ELSE [kind |-> "Char", rest |-> <<>>, ch |-> Some(c)]

(* CaseFoldForNfkc::next with Char read but not taken. *)
fold_next_not_taken(i) ==
    IF i.kind = "Chars"
    THEN <<next(i.rest), [i EXCEPT !.rest = IF i.rest = <<>> THEN <<>> ELSE Tail(i.rest)]>>
    ELSE <<i.ch, i>>

(* CaseFoldForNfkc::next: <<the item returned, the iterator afterwards>>.  *)
(* Chars::next returns None at the end of the string and keeps doing so;   *)
(* Option::take returns the option and leaves None.                        *)
fold_next(i) ==
    IF i.kind = "Chars"
    THEN <<next(i.rest), [i EXCEPT !.rest = IF i.rest = <<>> THEN <<>> ELSE Tail(i.rest)]>>
    ELSE <<i.ch, [i EXCEPT !.ch = None]>>

(* The items of an iterator up to its first None. *)
RECURSIVE fold_collect(_)
fold_collect(i) ==
    LET r == fold_next(i)
    IN  IF r[1] = None THEN <<>> ELSE r[1] \o fold_collect(r[2])

(* The tables a fold is run on: B_2 with an entry that has an empty        *)
(* replacement, and every table made of some of these entries, which is    *)
(* sorted as they are.                                                     *)
FoldEntries ==
    << <<65, <<97>>>>, <<67, <<99>>>>, <<173, <<>>>>, <<192, <<224>>>>,
       <<223, <<115, 115>>>>, <<912, <<953, 776, 769>>>>, <<7840, <<7841>>>>,
       <<8450, <<99>>>>, <<13254, <<99, 8725, 107, 103>>>> >>
FoldTables ==
    {SelectSeq(FoldEntries, LAMBDA e : e[1] \in K) :
        K \in SUBSET {FoldEntries[i][1] : i \in 1..Len(FoldEntries)}}

(* The code points folded: the keys, and code points below, between and    *)
(* above them.                                                             *)
FoldPoints == {FoldEntries[i][1] : i \in 1..Len(FoldEntries)} \cup {0, 66, 97, 8501, 13255}

(* Calls of next made on one iterator. *)
MaxNext == 6

(***************************************************************************)
(* tables.rs: A.1 Unassigned code points in Unicode 3.2                    *)
(***************************************************************************)

(* The comparator with the last code point of a range outside the range. *)
range_cmp_end_exclusive(e, c) ==
    IF e[1] > c THEN "Greater" ELSE IF e[2] <= c THEN "Less" ELSE "Equal"

(* The closure of binary_search_by on the entry e = <<start, end>>. *)
range_cmp(e, c) ==
    IF e[1] > c THEN "Greater" ELSE IF e[2] < c THEN "Less" ELSE "Equal"

(* Largest number of ranges of a table, and largest code point in one. *)
MaxRanges == 3
MaxPoint == 6

(* The tables a search is run on: the strictly ascending tables of         *)
(* non-overlapping ranges <<start, end>>, start <= end.                    *)
RangeTables ==
    LET Pairs == {<<a, b>> : a \in 0..MaxPoint, b \in 0..MaxPoint}
        Ranges == {e \in Pairs : e[1] <= e[2]}
    IN  UNION {{t \in [1..k -> Ranges] : \A i \in 1..(k - 1) : t[i][2] < t[i + 1][1]} :
                  k \in 0..MaxRanges}

(***************************************************************************)
(* The state machine: one call of saslprep or nameprep, stage by stage,    *)
(* and a caller that hands a successful output to the same function again. *)
(***************************************************************************)
VARIABLES
    fn,          \* the function called: "saslprep" or "nameprep"
    s,           \* its argument
    pc,          \* the stage the call is at
    mapped,      \* the mapped sequence
    normalized,  \* the normalized string
    result,      \* the value returned
    round,       \* 1 for the first call, 2 for the call on its output
    prev         \* the output of the first call, in round 2

(* One use of the iterator of case_fold_for_nfkc. *)
VARIABLES
    tbl,         \* the table B_2 the call searches
    cp,          \* the code point folded
    it,          \* the iterator, <<>> before case_fold_for_nfkc is called
    out          \* what the calls of next returned, in order

(* One call of unassigned_code_point. *)
VARIABLES
    ranges,      \* the table A_1 the call searches
    sc,          \* the code point looked up
    left,        \* the binary search: lower end of the part to search
    right,       \* the binary search: upper end of the part to search
    answer,      \* the value returned, "none" before the return
    spc          \* where the call is

(* One run of the table generator. *)
VARIABLES
    shared,      \* TRUE: main of script/generate_rfc3454.rs, one reader
    file,        \* the lines of rfc3454.txt
    rpos,        \* lines the reader has consumed
    line,        \* the line read in this iteration
    call,        \* the call of include_table main is in: 1 (A.1), 2 (B.2)
    written,     \* what was written to the output file
    gpc          \* where the generator is

libvars == <<fn, s, pc, mapped, normalized, result, round, prev>>
foldvars == <<tbl, cp, it, out>>
searchvars == <<ranges, sc, left, right, answer, spc>>
genvars == <<shared, file, rpos, line, call, written, gpc>>
vars == <<libvars, foldvars, searchvars, genvars>>

(* The variables of the parts that are not running. *)
FoldIdle == tbl = <<>> /\ cp = 0 /\ it = <<>> /\ out = <<>>
SearchIdle ==
    ranges = <<>> /\ sc = 0 /\ left = 0 /\ right = 0 /\ answer = "none" /\ spc = "idle"
GenIdle ==
    /\ shared = FALSE /\ file = <<>> /\ rpos = 0 /\ line = "none"
    /\ call = 0 /\ written = <<>> /\ gpc = "idle"

Init ==
    /\ fn \in {"saslprep", "nameprep"}
    /\ s \in Strings(Alphabet, MaxLen)
    /\ pc = "entry"
    /\ mapped = <<>>
    /\ normalized = <<>>
    /\ result = Pending
    /\ round = 1
    /\ prev = <<>>
    /\ FoldIdle /\ SearchIdle /\ GenIdle

(* saslprep: fast path for ascii text. *)
FastPath ==
    /\ fn = "saslprep" /\ pc = "entry"
    /\ IF fast_path(s)
       THEN pc' = "returned" /\ result' = Ok(s, "fast")
       ELSE pc' = "mapping" /\ UNCHANGED result
    /\ UNCHANGED <<fn, s, mapped, normalized, round, prev>>
    /\ UNCHANGED <<foldvars, searchvars, genvars>>

(* saslprep: 2.1 Mapping and 2.2 Normalization. *)
SaslprepNormalization ==
    /\ fn = "saslprep" /\ pc = "mapping"
    /\ mapped' = saslprep_mapped(s)
    /\ normalized' = saslprep_normalized(s)
    /\ pc' = "prohibited"
    /\ UNCHANGED <<fn, s, result, round, prev>>
    /\ UNCHANGED <<foldvars, searchvars, genvars>>

(* nameprep: 3. Mapping. *)
NameprepMapping ==
    /\ fn = "nameprep" /\ pc = "entry"
    /\ mapped' = nameprep_mapped(s)
    /\ pc' = "normalization"
    /\ UNCHANGED <<fn, s, normalized, result, round, prev>>
    /\ UNCHANGED <<foldvars, searchvars, genvars>>

(* nameprep: 4. Normalization. *)
NameprepNormalization ==
    /\ fn = "nameprep" /\ pc = "normalization"
    /\ normalized' = nfkc(mapped)
    /\ pc' = "prohibited"
    /\ UNCHANGED <<fn, s, mapped, result, round, prev>>
    /\ UNCHANGED <<foldvars, searchvars, genvars>>

(* Prohibited Output with the bidirectional check made first. *)
BidirectionalBeforeProhibited ==
    /\ pc = "prohibited"
    /\ LET p == prohibited(fn, normalized)
           b == bidirectional(normalized)
       IN  IF b \in {"l", "ends"}
           THEN pc' = "returned" /\ result' = ProhibitedBidirectionalText(b)
           ELSE IF p # None
           THEN pc' = "returned" /\ result' = ProhibitedCharacter(p[1])
           ELSE pc' = "bidi" /\ UNCHANGED result
    /\ UNCHANGED <<fn, s, mapped, normalized, round, prev>>
    /\ UNCHANGED <<foldvars, searchvars, genvars>>

(* Both: Prohibited Output. *)
ProhibitedOutput ==
    /\ pc = "prohibited"
    /\ LET p == prohibited(fn, normalized)
       IN  IF p # None
           THEN pc' = "returned" /\ result' = ProhibitedCharacter(p[1])
           ELSE pc' = "bidi" /\ UNCHANGED result
    /\ UNCHANGED <<fn, s, mapped, normalized, round, prev>>
    /\ UNCHANGED <<foldvars, searchvars, genvars>>

(* Both: Bidirectional Characters, and the final Ok. *)
Bidirectional ==
    /\ pc = "bidi"
    /\ LET b == bidirectional(normalized)
       IN  result' = CASE b = "pass" -> Ok(normalized, "end")
                       [] b = "panic" -> Panic
                       [] OTHER -> ProhibitedBidirectionalText(b)
    /\ pc' = "returned"
    /\ UNCHANGED <<fn, s, mapped, normalized, round, prev>>
    /\ UNCHANGED <<foldvars, searchvars, genvars>>

(* The caller passes the output of a successful first call to the same     *)
(* function.                                                               *)
Reapply ==
    /\ pc = "returned" /\ round = 1 /\ result.kind = "Ok"
    /\ s' = result.str
    /\ prev' = result.str
    /\ round' = 2
    /\ pc' = "entry"
    /\ mapped' = <<>>
    /\ normalized' = <<>>
    /\ result' = Pending
    /\ UNCHANGED fn
    /\ UNCHANGED <<foldvars, searchvars, genvars>>

Next ==
    \/ FastPath
    \/ SaslprepNormalization
    \/ NameprepMapping
    \/ NameprepNormalization
    \/ ProhibitedOutput
    \/ Bidirectional
    \/ Reapply

Spec == Init /\ [][Next]_vars

TypeOK ==
    /\ fn \in {"saslprep", "nameprep"}
    /\ pc \in {"entry", "mapping", "normalization", "prohibited", "bidi", "returned"}
    /\ round \in {1, 2}
    /\ result.kind \in {"Pending", "Ok", "ProhibitedCharacter",
                        "ProhibitedBidirectionalText", "Panic"}
    /\ \A i \in 1..Len(normalized) : normalized[i] \in Universe

(***************************************************************************)
(* The state machine of one case fold: case_fold_for_nfkc(cp) on the table *)
(* tbl, and calls of next on the iterator it returned.                     *)
(***************************************************************************)
LibIdle ==
    /\ fn = "none" /\ s = <<>> /\ pc = "idle" /\ mapped = <<>> /\ normalized = <<>>
    /\ result = Pending /\ round = 0 /\ prev = <<>>

InitFold ==
    /\ tbl \in FoldTables
    /\ cp \in FoldPoints
    /\ it = <<>>
    /\ out = <<>>
    /\ LibIdle /\ SearchIdle /\ GenIdle

(* case_fold_for_nfkc(cp) *)
CaseFold ==
    /\ it = <<>>
    /\ it' = <<case_fold_for_nfkc(tbl, cp)>>
    /\ UNCHANGED <<tbl, cp, out>>
    /\ UNCHANGED <<libvars, searchvars, genvars>>

(* next() on the iterator *)
FoldNext ==
    /\ it # <<>> /\ Len(out) < MaxNext
    /\ LET r == fold_next(it[1])
       IN  out' = Append(out, r[1]) /\ it' = <<r[2]>>
    /\ UNCHANGED <<tbl, cp>>
    /\ UNCHANGED <<libvars, searchvars, genvars>>

NextFold == CaseFold \/ FoldNext

SpecFold == InitFold /\ [][NextFold]_vars

(***************************************************************************)
(* The state machine of one call of unassigned_code_point(sc) on the table *)
(* ranges: slice::binary_search_by, one iteration of its loop at a time,   *)
(* and is_ok.  Indices start at 1; left..right-1 is the part to search.    *)
(***************************************************************************)
InitSearch ==
    /\ ranges \in RangeTables
    /\ sc \in 0..MaxPoint
    /\ left = 0 /\ right = 0
    /\ answer = "none"
    /\ spc = "entry"
    /\ LibIdle /\ FoldIdle /\ GenIdle

(* binary_search_by: left = 0, right = len. *)
SearchCall ==
    /\ spc = "entry"
    /\ left' = 1
    /\ right' = Len(ranges) + 1
    /\ spc' = "loop"
    /\ UNCHANGED <<ranges, sc, answer>>
    /\ UNCHANGED <<libvars, foldvars, genvars>>

(* One iteration: compare the middle entry, return Ok on Equal. *)
SearchStep ==
    /\ spc = "loop" /\ left < right
    /\ LET mid == left + ((right - left) \div 2)
           cmp == range_cmp(ranges[mid], sc)
       IN  CASE cmp = "Less" ->
                  left' = mid + 1 /\ UNCHANGED <<right, answer, spc>>
             [] cmp = "Greater" ->
                  right' = mid /\ UNCHANGED <<left, answer, spc>>
             [] OTHER ->
                  answer' = "true" /\ spc' = "returned" /\ UNCHANGED <<left, right>>
    /\ UNCHANGED <<ranges, sc>>
    /\ UNCHANGED <<libvars, foldvars, genvars>>

(* The loop ends with nothing left to search: Err, is_ok is false. *)
SearchMiss ==
    /\ spc = "loop" /\ left >= right
    /\ answer' = "false"
    /\ spc' = "returned"
    /\ UNCHANGED <<ranges, sc, left, right>>
    /\ UNCHANGED <<libvars, foldvars, genvars>>

NextSearch == SearchCall \/ SearchStep \/ SearchMiss

SpecSearch == InitSearch /\ [][NextSearch]_vars

(***************************************************************************)
(* The table generator: main and include_table of                          *)
(* script/generate_rfc3454.rs (one reader for both calls) and of           *)
(* codegen/src/main.rs (a new reader over the same bytes for each call).   *)
(*                                                                         *)
(* A line of the input is one of                                           *)
(*   "startA"  contains "Start Table" and "A.1"                            *)
(*   "startB"  contains "Start Table" and "B.2"                            *)
(*   "end"     contains "End Table"                                        *)
(*   "meta"    contains "Hoffman & Blanchet" or "RFC 3454"                 *)
(*   "data"    none of these, matched by the regular expression            *)
(*   "text"    none of these, not matched                                  *)
(* and read_line at the end of the input leaves the new String empty, "".  *)
(***************************************************************************)

(* Longest input of the generator, in lines. *)
MaxLines == 4

LineKinds == {"startA", "startB", "end", "meta", "data", "text"}

(* The tablename of a call, as the kind of its start line. *)
start_of(n) == IF n = 1 THEN "startA" ELSE "startB"

(* target_re.captures(&line) is Some: a start line has the hexadecimal     *)
(* digits of its table name.                                               *)
matches_target_re(l) == l \in {"data", "startA", "startB"}

(* reader.read_line(&mut line) on a new String: <<line, lines consumed>>. *)
read_line(f, p) == IF p < Len(f) THEN <<f[p + 1], p + 1>> ELSE <<"", p>>

InitGen ==
    /\ shared \in BOOLEAN
    /\ file \in Strings(LineKinds, MaxLines)
    /\ rpos = 0
    /\ line = "none"
    /\ call = 1
    /\ written = <<>>
    /\ gpc = "scan_read"
    /\ LibIdle /\ FoldIdle /\ SearchIdle

(* Scan to start of table: read a line. *)
ScanRead ==
    /\ gpc = "scan_read"
    /\ line' = read_line(file, rpos)[1]
    /\ rpos' = read_line(file, rpos)[2]
    /\ gpc' = "scan_test"
    /\ UNCHANGED <<shared, file, call, written>>
    /\ UNCHANGED <<libvars, foldvars, searchvars>>

(* Scan to start of table: break on the start line of the table and write  *)
(* the declaration, else loop.                                             *)
ScanTest ==
    /\ gpc = "scan_test"
    /\ IF line = start_of(call)
       THEN gpc' = "emit_read" /\ written' = Append(written, <<"decl", call>>)
       ELSE gpc' = "scan_read" /\ UNCHANGED written
    /\ line' = "none"
    /\ UNCHANGED <<shared, file, rpos, call>>
    /\ UNCHANGED <<libvars, foldvars, searchvars>>

(* For each line: read a line. *)
EmitRead ==
    /\ gpc = "emit_read"
    /\ line' = read_line(file, rpos)[1]
    /\ rpos' = read_line(file, rpos)[2]
    /\ gpc' = "emit_test"
    /\ UNCHANGED <<shared, file, call, written>>
    /\ UNCHANGED <<libvars, foldvars, searchvars>>

(* For each line: break at the end of the table, write the end of the      *)
(* definition and return to main, which makes its second call or ends;     *)
(* else skip metadata, write an entry for a data line, and loop.           *)
EmitTest ==
    /\ gpc = "emit_test"
    /\ IF line = "end"
       THEN /\ written' = Append(written, <<"close", call>>)
            /\ IF call = 1
               THEN /\ call' = 2
                    /\ rpos' = IF shared THEN rpos ELSE 0
                    /\ gpc' = "scan_read"
               ELSE gpc' = "done" /\ UNCHANGED <<call, rpos>>
       ELSE /\ gpc' = "emit_read"
            /\ written' = IF line # "meta" /\ matches_target_re(line)
                          THEN Append(written, <<"entry", call>>) ELSE written
            /\ UNCHANGED <<call, rpos>>
    /\ line' = "none"
    /\ UNCHANGED <<shared, file>>
    /\ UNCHANGED <<libvars, foldvars, searchvars>>

NextGen == ScanRead \/ ScanTest \/ EmitRead \/ EmitTest

SpecGen == InitGen /\ [][NextGen]_vars

(* The generator is a sequential program: it takes its next step. *)
FairSpecGen == SpecGen /\ WF_vars(NextGen)

(* A call that did not return on the fast path returns what the stages    *)
(* compute from its argument.                                              *)
StagesAgree ==
    (pc = "returned" /\ result.site # "fast") =>
        /\ result = checked(fn, normalized)
        /\ fn = "saslprep" => result = saslprep_stages(s)

(***************************************************************************)
(* Properties                                                              *)
(***************************************************************************)

(* C1: in the mapping of saslprep every code point of B.1 is dropped, and   *)
(* only the remaining code points of C.1.2 become a space: the mapped      *)
(* sequence is the input with B.1 removed and then C.1.2 replaced by       *)
(* U+0020.  The code replaces first and drops second, so U+200B, which is  *)
(* in both tables, becomes a space.                                        *)
C1_DropPrecedesSpace ==
    (fn = "saslprep" /\ pc \in {"prohibited", "bidi"}) =>
        LET kept == SelectSeq(s, not_mapped_to_nothing)
        IN  mapped = [i \in 1..Len(kept) |-> space_map(kept[i])]

(* C2: a saslprep call on ASCII text without control characters returns    *)
(* Ok with its argument, and the stages after the fast path compute the    *)
(* same Ok from the same argument.                                         *)
C2_FastPathEquivalence ==
    (fn = "saslprep" /\ pc = "returned" /\ \A i \in 1..Len(s) : s[i] \in 32..126) =>
        /\ result.kind = "Ok" /\ result.str = s
        /\ saslprep_stages(s).kind = result.kind
        /\ saslprep_stages(s).str = result.str

C2_Witness ==
    /\ fn = "saslprep" /\ pc = "returned" /\ round = 1
    /\ s = <<65, 32, 97>> /\ result.site = "fast" /\ result.str = <<65, 32, 97>>

(* C3: saslprep applied to a successful output of saslprep returns Ok with *)
(* that output unchanged.                                                  *)
C3_SaslprepIdempotent ==
    (fn = "saslprep" /\ round = 2 /\ pc = "returned") =>
        result.kind = "Ok" /\ result.str = prev

C3_Witness ==
    /\ fn = "saslprep" /\ round = 2 /\ pc = "returned"
    /\ result.site = "end" /\ prev = <<7841, 768>>

(* C4: nameprep applied to a successful output of nameprep returns Ok with *)
(* that output unchanged.  to_lowercase leaves U+2102 alone and            *)
(* normalization turns it into 'C', which the second call lowercases.      *)
C4_NameprepIdempotent ==
    (fn = "nameprep" /\ round = 2 /\ pc = "returned") =>
        result.kind = "Ok" /\ result.str = prev

(* C5: a call that is past the fast path fails with ProhibitedCharacter     *)
(* exactly when its normalized string has a code point of the profile's    *)
(* prohibited sets, and the error carries the left-most one.               *)
C5_FirstProhibited ==
    (pc = "returned" /\ result.site # "fast") =>
        LET hits == {i \in 1..Len(normalized) :
                        IF fn = "saslprep" THEN saslprep_prohibited(normalized[i])
                        ELSE nameprep_prohibited(normalized[i])}
        IN  /\ result.kind = "ProhibitedCharacter" <=> hits # {}
            /\ hits # {} =>
                 \E i \in hits : /\ \A j \in hits : i <= j
                                 /\ result.ch = <<normalized[i]>>

C5_Witness ==
    /\ pc = "returned" /\ result.kind = "ProhibitedCharacter"
    /\ s = <<832, 57344, 160>> /\ normalized = <<768, 57344, 32>>
    /\ result.ch = <<57344>>

(* C6: saslprep on an argument with an ASCII control character fails with  *)
(* ProhibitedCharacter.                                                    *)
C6_ControlProhibited ==
    (fn = "saslprep" /\ pc = "returned"
        /\ \E i \in 1..Len(s) : s[i] \in 0..31 \/ s[i] = 127) =>
        result.kind = "ProhibitedCharacter"

C6_Witness ==
    /\ fn = "saslprep" /\ pc = "returned" /\ s = <<1488, 97, 7>>
    /\ result.kind = "ProhibitedCharacter" /\ result.ch = <<7>>

(* C7: a normalized string that passed the prohibition scan is rejected    *)
(* with ProhibitedBidirectionalText exactly when it has an R/AL code point *)
(* and also an L code point, a first code point that is not R/AL or a last *)
(* code point that is not R/AL; testing the last code point before the     *)
(* first accepts and rejects the same strings.                             *)
C7_BidiInvariant ==
    (pc = "returned" /\ result.site \in {"l", "ends", "end", "unwrap"}) =>
        LET n == normalized
            ral(c) == bidi_class(c) = "R" \/ bidi_class(c) = "AL"
            anyRal == \E i \in 1..Len(n) : ral(n[i])
            anyL == \E i \in 1..Len(n) : bidi_class(n[i]) = "L"
            lastFirst == IF ~anyRal THEN "pass"
                         ELSE IF anyL THEN "l"
                         ELSE IF ~ral(n[Len(n)]) THEN "ends"
                         ELSE IF ~ral(n[1]) THEN "ends"
                         ELSE "pass"
        IN  /\ result.kind = "ProhibitedBidirectionalText" <=>
                 (anyRal /\ (anyL \/ ~ral(n[1]) \/ ~ral(n[Len(n)])))
            /\ ~anyRal => result.kind = "Ok"
            /\ result.kind = "Ok" <=> lastFirst = "pass"

C7_Witness ==
    /\ pc = "returned" /\ result.kind = "ProhibitedBidirectionalText"
    /\ result.site = "ends" /\ normalized = <<1575, 32>>

(* C8: nameprep fails with ProhibitedCharacter exactly when its normalized *)
(* string has a code point that saslprep prohibits and that is not an      *)
(* ASCII control character; ASCII control characters alone pass.           *)
C8_NameprepAllowsControl ==
    (fn = "nameprep" /\ pc = "returned") =>
        (result.kind = "ProhibitedCharacter" <=>
            \E i \in 1..Len(normalized) :
                /\ saslprep_prohibited(normalized[i])
                /\ ~(normalized[i] \in 0..31 \/ normalized[i] = 127))

C8_Witness ==
    /\ fn = "nameprep" /\ pc = "returned" /\ round = 1
    /\ normalized = <<97, 7>> /\ result.kind = "Ok" /\ result.str = <<97, 7>>

(* C9: no call unwinds: unwrap is never called on None, a call that has    *)
(* not returned is at a stage of its function with nothing returned yet,   *)
(* and a call that has returned has returned Ok or one of the two errors.  *)
C9_NeverAborts ==
    /\ result.kind # "Panic"
    /\ pc # "returned" =>
         /\ result = Pending
         /\ \/ pc \in {"entry", "prohibited", "bidi"}
            \/ pc = "mapping" /\ fn = "saslprep"
            \/ pc = "normalization" /\ fn = "nameprep"
    /\ pc = "returned" =>
         result.kind \in {"Ok", "ProhibitedCharacter", "ProhibitedBidirectionalText"}

C9_Witness ==
    /\ pc = "returned" /\ s = <<173, 8203>> /\ fn = "nameprep"
    /\ normalized = <<>> /\ result.kind = "Ok" /\ result.site = "end"

(* C10: the result of a call past the fast path is decided on the          *)
(* normalized string, the prohibition scan first: ProhibitedCharacter if   *)
(* it has a prohibited code point, whether or not it also violates the     *)
(* bidirectional rule; otherwise ProhibitedBidirectionalText if it         *)
(* violates that rule; otherwise Ok with the normalized string.            *)
C10_ProhibitedBeforeBidi ==
    (pc = "returned" /\ result.site # "fast") =>
        LET n == normalized
            hasProhibited == \E i \in 1..Len(n) :
                IF fn = "saslprep" THEN saslprep_prohibited(n[i])
                ELSE nameprep_prohibited(n[i])
            anyRal == \E i \in 1..Len(n) : bidi_r_or_al(n[i])
            violates == anyRal /\ (\/ \E i \in 1..Len(n) : bidi_l(n[i])
                                   \/ ~bidi_r_or_al(n[1])
                                   \/ ~bidi_r_or_al(n[Len(n)]))
        IN  /\ n = nfkc(mapped)
            /\ hasProhibited => result.kind = "ProhibitedCharacter"
            /\ (~hasProhibited /\ violates) =>
                 result.kind = "ProhibitedBidirectionalText"
            /\ (~hasProhibited /\ ~violates) =>
                 result.kind = "Ok" /\ result.str = n

C10_Witness ==
    /\ pc = "returned" /\ result.kind = "ProhibitedCharacter"
    /\ normalized = <<1488, 97, 57344>> /\ result.ch = <<57344>>

(* C14: the string of every Ok of saslprep, from the fast path or from the *)
(* end of the function, has no code point of C.1.2, C.2.1, C.2.2, C.3,     *)
(* C.4, C.5, C.6, C.7, C.8 or C.9, and if it has an R/AL code point it has *)
(* no L code point and its first and last code points are R/AL.            *)
C14_OkPostcondition ==
    (fn = "saslprep" /\ pc = "returned" /\ result.kind = "Ok") =>
        LET t == result.str
            anyRal == \E i \in 1..Len(t) : bidi_class(t[i]) \in {"R", "AL"}
        IN  /\ \A i \in 1..Len(t) :
                 /\ ~non_ascii_space_character(t[i])
                 /\ ~(t[i] \in 0..31 \/ t[i] = 127)
                 /\ ~non_ascii_control_character(t[i])
                 /\ ~private_use(t[i])
                 /\ ~non_character_code_point(t[i])
                 /\ ~surrogate_code(t[i])
                 /\ ~inappropriate_for_plain_text(t[i])
                 /\ ~inappropriate_for_canonical_representation(t[i])
                 /\ ~change_display_properties_or_deprecated(t[i])
                 /\ ~tagging_character(t[i])
            /\ anyRal =>
                 /\ \A i \in 1..Len(t) : bidi_class(t[i]) # "L"
                 /\ bidi_class(t[1]) \in {"R", "AL"}
                 /\ bidi_class(t[Len(t)]) \in {"R", "AL"}

C14_Witness ==
    /\ fn = "saslprep" /\ pc = "returned" /\ result.kind = "Ok"
    /\ result.site = "end" /\ result.str = <<1488, 32, 1575>>

(* C11: the sequence nameprep normalizes is the input without the code     *)
(* points of B.1, each remaining code point replaced by what               *)
(* case_fold_for_nfkc yields for it on B_2.  The code lowercases with      *)
(* to_lowercase instead, which leaves U+2102 where B.2 has 'c'.            *)
C11_MappingIsCaseFold ==
    (fn = "nameprep" /\ pc = "normalization") =>
        LET kept == SelectSeq(s, not_mapped_to_nothing)
            folded[i \in 0..Len(kept)] ==
                IF i = 0 THEN <<>>
                ELSE folded[i - 1] \o fold_collect(case_fold_for_nfkc(B_2, kept[i]))
        IN  mapped = folded[Len(kept)]

(* C12: the calls of next on case_fold_for_nfkc(cp) return, in order, the  *)
(* code points of the replacement of cp when cp is a key of the table (at  *)
(* most four, possibly none) or cp alone when it is not, and None from     *)
(* then on.                                                                *)
C12_FoldYields ==
    it # <<>> =>
        LET hits == {i \in 1..Len(tbl) : tbl[i][1] = cp}
            expected == IF hits = {} THEN <<cp>> ELSE tbl[CHOOSE i \in hits : TRUE][2]
        IN  /\ Len(expected) <= 4
            /\ \A j \in 1..Len(out) :
                 out[j] = IF j <= Len(expected) THEN <<expected[j]>> ELSE <<>>

C12_Witness ==
    /\ cp = 13254 /\ Len(tbl) = 9
    /\ out = << <<99>>, <<8725>>, <<107>>, <<103>>, <<>>, <<>> >>

(* C13: on a strictly ascending table of non-overlapping ranges,            *)
(* unassigned_code_point returns true exactly when a linear scan finds a   *)
(* range with start <= c <= end, for c on a boundary, inside a range and   *)
(* in a gap.                                                               *)
C13_SearchIsLinearScan ==
    spc = "returned" =>
        (answer = "true" <=>
            \E i \in 1..Len(ranges) : ranges[i][1] <= sc /\ sc <= ranges[i][2])

C13_Witness ==
    /\ spc = "returned" /\ answer = "true"
    /\ ranges = << <<0, 1>>, <<3, 4>>, <<6, 6>> >> /\ sc = 4

(* C15: main of the generator ends on every input: both loops of both      *)
(* calls of include_table finish.  At the end of the input read_line       *)
(* returns Ok(0) and an empty line, which neither loop breaks on.          *)
C15_GeneratorTerminates == <>(gpc = "done")

(* C15, as a step property: a loop iteration that read the end of the      *)
(* input (the empty line) leaves its loop instead of reading again.        *)
C15_EndOfInputLeavesLoop ==
    [][(gpc \in {"scan_test", "emit_test"} /\ line = "")
          => gpc' \notin {"scan_read", "emit_read"}]_vars

====
